---- MODULE Spec2Model ----
(***************************************************************************)
(* A model of gen.py, the generator of Odin bindings from the orca API     *)
(* description (api.json).  JSON objects are records; a key that may be    *)
(* absent is tested with DOMAIN, and reading an absent key is the KeyError *)
(* that ends the run.  Text is modelled as it is written: an output stream *)
(* is the sequence of its finished lines plus the unfinished last line.    *)
(***************************************************************************)
EXTENDS Integers, Sequences, FiniteSets, TLC

VARIABLES
    api_desc,     \* the input tree: node i (pre-order number) is [parent, obj]
    file,         \* odin_file, the main output stream
    main_block,   \* the temp_block of __main__
    stack,        \* the active calls of iterate_object, innermost last
    module_idx,   \* how many top-level entries of api_desc the main loop has taken
    pc,           \* "load" | "main" | "walk" | "done" | "aborted"; "emit" | "returned" under SpecEmit
    hash_order,   \* the iteration order of the two prefix sets in this process
    call,         \* SpecEmit: the function applied and its argument
    ret           \* SpecEmit: its result

vars == <<api_desc, file, main_block, stack, module_idx, pc, hash_order, call, ret>>

\* ------------------------------------------------------------- bounds

MaxNodes == 4      \* nodes of an input tree
MaxDepth == 2      \* pointer / namedType wrappers around a type descriptor
MaxConsts == 3     \* constants of an enum
MaxFields == 2     \* fields of a struct

\* ------------------------------------------------------- strings, text

Has(obj, key) == key \in DOMAIN obj

StartsWith(s, p) == Len(s) >= Len(p) /\ SubSeq(s, 1, Len(p)) = p

EndsWith(s, p) == Len(s) >= Len(p) /\ SubSeq(s, Len(s) - Len(p) + 1, Len(s)) = p

Drop(s, n) == SubSeq(s, n + 1, Len(s))

Contains(s, p) == \E i \in 1..(Len(s) - Len(p) + 1) : SubSeq(s, i, i + Len(p) - 1) = p

Min(S) == CHOOSE x \in S : \A y \in S : x <= y

Max(S) == CHOOSE x \in S : \A y \in S : x >= y

\* A stream (a file or an io.StringIO): finished lines, the unfinished last
\* line, and whether an exception was raised while writing into it.
EmptyStream == [lines |-> <<>>, tail |-> "", err |-> FALSE]

\* file.write(s), s without a line break
Write(f, s) == IF f.err THEN f ELSE [f EXCEPT !.tail = @ \o s]

\* file.write(s + "\n")
WriteLn(f, s) ==
    IF f.err THEN f ELSE [f EXCEPT !.lines = Append(@, f.tail \o s), !.tail = ""]

\* an uncaught exception (KeyError) inside a call that writes to f
Raise(f) == [f EXCEPT !.err = TRUE]

\* file.write(block.getvalue())
WriteStream(f, block) ==
    IF f.err THEN f
    ELSE IF block.lines = <<>> THEN [f EXCEPT !.tail = @ \o block.tail]
    ELSE [f EXCEPT !.lines = @ \o <<f.tail \o Head(block.lines)>> \o Tail(block.lines),
                   !.tail = block.tail]

\* the characters of a sequence of finished lines, line breaks included
RECURSIVE CharCount(_)
CharCount(lines) ==
    IF lines = <<>> THEN 0 ELSE Len(Head(lines)) + 1 + CharCount(Tail(lines))

\* temp_block.tell(): the position, which is at the end of what was written
Tell(block) == CharCount(block.lines) + Len(block.tail)

\* ------------------------------------------------------ Naming Normalizer

prefix_trim_oc(name) == IF StartsWith(name, "oc_") THEN Drop(name, 3) ELSE name

reserved_field_names == {"string"}

check_field_name(name) ==
    IF \E reserved \in reserved_field_names : reserved = name
    THEN "_" \o name
    ELSE name

Digits == {"0", "1", "2", "3", "4", "5", "6", "7", "8", "9"}

\* str.isdecimal() on ASCII text
IsDecimal(name) == Len(name) > 0 /\ \A i \in 1..Len(name) : SubSeq(name, i, i) \in Digits

check_enum_name_decimal(name) == IF IsDecimal(name) THEN "_" \o name ELSE name

RECURSIVE indent_string(_)
indent_string(indent) == IF indent <= 0 THEN "" ELSE "  " \o indent_string(indent - 1)

\* ----------------------------------------------------------- Type Resolver

\* A resolved type or the KeyError of a missing key.
Ok(text) == [ok |-> TRUE, val |-> text]
KeyError == [ok |-> FALSE, val |-> "KeyError"]

\* obj["kind"] is read first, with or without a name
get_type_name_or_kind(obj) ==
    IF ~Has(obj, "kind") THEN KeyError
    ELSE IF Has(obj, "name") THEN Ok(prefix_trim_oc(obj.name))
    ELSE Ok(obj.kind)

get_inner_kind(obj) ==
    LET result == get_type_name_or_kind(obj) IN
    IF ~result.ok THEN KeyError
    ELSE IF result.val = "pointer" THEN
        IF ~Has(obj, "type") THEN KeyError
        ELSE LET inner == get_type_name_or_kind(obj.type) IN
             IF ~inner.ok THEN KeyError
             ELSE IF inner.val = "void" THEN Ok("rawptr")
             ELSE Ok("^" \o inner.val)
    ELSE IF result.val = "namedType" THEN
        IF ~Has(obj, "type") THEN KeyError
        ELSE get_type_name_or_kind(obj.type)
    ELSE result

\* ------------------------------------------------------ Declaration Emitter

RECURSIVE gen_doc_lines(_, _, _, _)
gen_doc_lines(lines, f, indent_str, i) ==
    IF i > Len(lines) THEN f
    ELSE gen_doc_lines(lines, WriteLn(f, indent_str \o lines[i]), indent_str, i + 1)

\* A doc is a JSON string, [str |-> text], or a JSON list of strings, [list |-> lines].
gen_doc(doc, f, indent) ==
    LET indent_str == indent_string(indent) IN
    IF Has(doc, "list")
    THEN WriteLn(gen_doc_lines(doc.list, WriteLn(f, indent_str \o "/*"), indent_str, 1),
                 indent_str \o "*/")
    ELSE WriteLn(f, indent_str \o "// " \o doc.str)

try_gen_doc(obj, f, indent) == IF Has(obj, "doc") THEN gen_doc(obj.doc, f, indent) ELSE f

gen_param(obj, f) ==
    LET name0 == check_field_name(obj.name) IN
    IF name0 = "..." THEN Write(f, "#c_vararg args: ..any")
    ELSE LET name == IF name0 = "context" THEN "_context" ELSE name0
             variable_output == get_inner_kind(obj.type)
         IN  IF variable_output.ok
             THEN Write(f, name \o ": " \o variable_output.val)
             ELSE Raise(f)

RECURSIVE gen_proc_params(_, _, _)
gen_proc_params(params, f, param_count) ==
    IF param_count >= Len(params) \/ f.err THEN f
    ELSE gen_proc_params(params,
                         gen_param(params[param_count + 1],
                                   IF param_count > 0 THEN Write(f, ", ") ELSE f),
                         param_count + 1)

gen_proc(obj, f, indent) ==
    IF ~Has(obj, "kind") THEN Raise(f)
    ELSE
    LET name == prefix_trim_oc(obj.name)
        f1 == Write(try_gen_doc(obj, f, indent), indent_string(indent) \o name \o " :: proc(")
    IN  IF ~Has(obj, "params") THEN Raise(f1)
        ELSE LET f2 == Write(gen_proc_params(obj.params, f1, 0), ")") IN
             IF ~Has(obj, "return") THEN Raise(f2)
             ELSE LET return == obj.return
                      ret_kind == get_inner_kind(return)
                      f3 == IF ~Has(return, "kind") THEN Raise(f2)
                            ELSE IF return.kind = "void" THEN f2
                            ELSE IF ret_kind.ok THEN Write(f2, " -> " \o ret_kind.val)
                            ELSE Raise(f2)
                  IN  WriteLn(f3, " ---")

spacer == "////////////////////////////////////////////////////////////////////////////////"

gen_module_doc(obj, f) ==
    IF ~Has(obj, "brief") THEN Raise(f)
    ELSE WriteLn(WriteLn(WriteLn(WriteLn(f, spacer), "// " \o obj.brief), spacer), "")

type_builtins ==
    [vec2 |-> "[2]f32", vec3 |-> "[3]f32", vec2i |-> "[2]i32", vec4 |-> "[4]f32",
     mat2x3 |-> "[2][3]f32", rect |-> "[4]f32", color |-> "[4]f32", str8 |-> "string",
     ui_layout_align |-> "[2]ui_align", ui_box_size |-> "[2]ui_size",
     ui_box_floating |-> "[2]bool", utf32 |-> "rune"]

\* gen_type_builtins returns whether it wrote; this is the test
IsBuiltin(name) == name \in DOMAIN type_builtins

gen_type_builtins(name, f, indent) ==
    IF IsBuiltin(name)
    THEN WriteLn(WriteLn(f, indent_string(indent) \o name \o " :: " \o type_builtins[name]), "")
    ELSE f

get_enum_sizing(obj) == obj.type.kind

\* The two prefix sets, listed in the order of the source text.
SpecificList ==
    <<"OC_LOG_LEVEL_", "OC_EVENT_", "OC_KEY_", "OC_SCANCODE_", "OC_KEYMOD_", "OC_MOUSE_",
      "OC_FILE_DIALOG_", "OC_FILE_OPEN_", "OC_FILE_ACCESS_", "OC_FILE_SEEK_", "OC_IO_ERR_",
      "OC_GRADIENT_BLEND_", "OC_COLOR_SPACE_", "OC_JOINT_", "OC_CAP_", "OC_INPUT_TEXT_",
      "OC_UI_AXIS_", "OC_UI_ALIGN_", "OC_UI_SIZE_", "OC_UI_STYLE_", "OC_UI_SEL_",
      "OC_UI_FLAG_", "OC_UI_EDIT_MOVE_">>

BroadList == <<"OC_FILE_", "OC_UI_", "OC_IO_">>

enum_prefixes_specific == {SpecificList[i] : i \in 1..Len(SpecificList)}

enum_prefixes_broad == {BroadList[i] : i \in 1..Len(BroadList)}

\* A set of strings is iterated in an order fixed per process by the hash
\* seed, which may be any order of its elements.
Orderings(S) == {order \in [1..Cardinality(S) -> S] : \A x \in S : \E i \in DOMAIN order : order[i] = x}

\* the prefixes of a set that one of the names starts with
Matched(prefixes, names) == {p \in prefixes : \E n \in names : StartsWith(n, p)}

\* the elements of a sequence outside S, in the order of the sequence
Without(seq, S) == SelectSeq(seq, LAMBDA x : x \notin S)

ListedOrder == [specific |-> SpecificList, broad |-> BroadList]

\* The iteration orders of a process that simplifies `names`.  The three
\* prefixes of the broad set are taken in each of their six orders.  The 23!
\* orders of the specific set are too many to take one by one: each loop of
\* simplify_enum_name returns at the first prefix the name starts with, so an
\* order acts through the relative order of the prefixes that some name starts
\* with and through nothing else.  Those prefixes are taken in every order of
\* theirs, in front of the other prefixes.
HashOrders(names) ==
    LET matched == Matched(enum_prefixes_specific, names)
        others == Without(SpecificList, matched)
    IN  [specific : {m \o others : m \in Orderings(matched)},
         broad : Orderings(enum_prefixes_broad)]

\* the first prefix of the iteration `order` that `name` starts with, stripped
StripFirst(name, order, otherwise) ==
    LET hits == {i \in 1..Len(order) : StartsWith(name, order[i])} IN
    IF hits = {} THEN otherwise ELSE Drop(name, Len(order[Min(hits)]))

simplify_enum_name_one_loop(name) ==
    StripFirst(name, hash_order.broad \o hash_order.specific, name)

simplify_enum_name(name) ==
    StripFirst(name, hash_order.specific, StripFirst(name, hash_order.broad, name))

RECURSIVE gen_enum_constants(_, _, _, _, _)
gen_enum_constants(constants, f, fields_indent_str, singleton, i) ==
    IF i > Len(constants) THEN f
    ELSE LET const == constants[i]
             const_name == check_enum_name_decimal(simplify_enum_name(const.name))
             const_value == ToString(const.value)
             f1 == IF Has(const, "doc")
                   THEN WriteLn(f, fields_indent_str \o "// " \o const.doc.str)
                   ELSE f
             assignment == IF singleton THEN "::" ELSE "="
             f2 == Write(f1, fields_indent_str \o const_name \o " " \o assignment \o " "
                             \o const_value)
         IN  gen_enum_constants(constants, WriteLn(f2, IF singleton THEN "" ELSE ","),
                                fields_indent_str, singleton, i + 1)

gen_enum_singleton_below_two(obj) == Len(obj.constants) < 1

gen_enum_singleton(obj) == Len(obj.constants) <= 1

gen_enum(obj, f, name, indent) ==
    LET indent_str == indent_string(indent)
        singleton == gen_enum_singleton(obj)
        f1 == IF ~singleton
              THEN WriteLn(f, indent_str \o name \o " :: enum " \o get_enum_sizing(obj) \o " {")
              ELSE f
        fields_indent_str == IF ~singleton THEN indent_string(indent + 1) ELSE indent_str
        f2 == gen_enum_constants(obj.constants, f1, fields_indent_str, singleton, 1)
    IN  IF singleton THEN WriteLn(f2, "") ELSE WriteLn(WriteLn(f2, indent_str \o "}"), "")

RECURSIVE gen_struct(_, _, _, _)
RECURSIVE gen_struct_fields_from(_, _, _, _)
RECURSIVE gen_union_fields_from(_, _, _, _)

\* the loop of gen_union_fields from field i on
gen_union_fields_from(fields, f, indent, i) ==
    IF i > Len(fields) \/ f.err THEN f
    ELSE LET field == fields[i]
             field_name0 == check_field_name(field.name)
             field_kind == get_inner_kind(field.type)
             field_name == IF field_name0 = "" THEN "_" ELSE field_name0
             f1 == IF ~field_kind.ok THEN Raise(f)
                   ELSE IF field_kind.val = "struct"
                   THEN WriteLn(gen_struct(field.type, f, field_name, indent), ",")
                   ELSE WriteLn(f, indent_string(indent) \o field_name \o ": "
                                   \o field_kind.val \o ",")
         IN  gen_union_fields_from(fields, f1, indent, i + 1)

\* a union without "fields" prints a diagnostic and writes nothing
gen_union_fields(obj, f, indent) ==
    IF ~Has(obj, "fields") THEN f ELSE gen_union_fields_from(obj.fields, f, indent, 1)

\* the loop of gen_struct_fields from field i on
gen_struct_fields_from(fields, f, indent, i) ==
    IF i > Len(fields) \/ f.err THEN f
    ELSE LET indent_str == indent_string(indent)
             field == fields[i]
             field_name0 == check_field_name(field.name)
             variable_output == get_inner_kind(field.type)
             f1 == IF Has(field, "doc")
                   THEN WriteLn(f, indent_str \o "// " \o field.doc.str)
                   ELSE f
             field_name == IF field_name0 = "" THEN "_" ELSE field_name0
             f2 == IF ~variable_output.ok THEN Raise(f)
                   ELSE IF variable_output.val = "union"
                   THEN WriteLn(gen_union_fields(field.type,
                                    WriteLn(f1, indent_str \o field_name
                                                \o ": struct #raw_union {"),
                                    indent + 1),
                                indent_str \o "},")
                   ELSE WriteLn(f1, indent_str \o field_name0 \o ": "
                                    \o variable_output.val \o ",")
         IN  gen_struct_fields_from(fields, f2, indent, i + 1)

gen_struct_fields(obj, f, indent) == gen_struct_fields_from(obj.fields, f, indent, 1)

\* the handle test of gen_struct: one field, named h
IsHandle(obj) == Len(obj.fields) = 1 /\ check_field_name(obj.fields[1].name) = "h"

gen_struct(obj, f, name, indent) ==
    IF ~Has(obj, "fields") THEN f
    ELSE LET indent_str == indent_string(indent) IN
         IF IsHandle(obj) THEN Write(f, indent_str \o name \o " :: distinct u64")
         ELSE LET seperator == IF indent = 0 THEN " ::" ELSE ":" IN
              Write(gen_struct_fields(obj,
                                      WriteLn(f, indent_str \o name \o seperator \o " struct {"),
                                      indent + 1),
                    indent_str \o "}")

gen_typename_object(obj, f, indent) ==
    LET name == prefix_trim_oc(obj.name)
        f1 == try_gen_doc(obj, f, indent)
    IN  IF IsBuiltin(name) THEN gen_type_builtins(name, f1, indent)
        ELSE IF ~Has(obj, "type") THEN Raise(f1)
        ELSE IF ~Has(obj.type, "kind") THEN Raise(f1)
        ELSE LET variable_type == obj.type
                 kind == variable_type.kind
             IN  IF kind = "struct"
                 THEN WriteLn(WriteLn(gen_struct(variable_type, f1, name, indent), ""), "")
                 ELSE IF kind = "union"
                 THEN WriteLn(WriteLn(f1, name \o " :: union {}"), "")
                 ELSE IF kind = "enum"
                 THEN gen_enum(variable_type, f1, name, indent)
                 ELSE f1

\* ------------------------------------------------------------ Module Walker

\* the elements of a finite set of numbers in ascending order
SortedSeq(S) ==
    LET F[T \in SUBSET S] == IF T = {} THEN <<>> ELSE <<Min(T)>> \o F[T \ {Min(T)}]
    IN  F[S]

Reversed(seq) == [i \in 1..Len(seq) |-> seq[Len(seq) + 1 - i]]

\* the children of node i, last first
ContentsReversed(tree, i) == Reversed(SortedSeq({j \in 1..Len(tree) : tree[j].parent = i}))

\* obj["contents"] of node i: its children, in input order
Contents(tree, i) == SortedSeq({j \in 1..Len(tree) : tree[j].parent = i})

\* a JSON null in the place of a node (line 354: obj is None)
None == [null |-> TRUE]

IsNone(obj) == Has(obj, "null")

\* obj["kind"]; a null has none
KindOf(obj) == IF IsNone(obj) THEN "null" ELSE obj.kind

\* the call frame of iterate_object(obj, file, shared_block) on node i:
\* `next` is the position of the for loop in Contents, temp_block its own stream
Frame(i) == [node |-> i, next |-> 1, temp_block |-> EmptyStream]

\* lines 354-361 of the call iterate_object(api_desc[i].obj, file, ...) made
\* from `callers`: the module header goes to the file, then temp_block is created
Enter(i, callers) ==
    LET obj == api_desc[i].obj
        file1 == IF KindOf(obj) = "module" THEN gen_module_doc(obj, file) ELSE file
    IN  IF IsNone(obj)
        THEN /\ file' = file
             /\ pc' = IF callers = <<>> THEN "main" ELSE "walk"
             /\ stack' = callers
        ELSE /\ file' = file1
             /\ pc' = IF file1.err THEN "aborted" ELSE "walk"
             /\ stack' = IF file1.err THEN callers ELSE Append(callers, Frame(i))

\* lines 371-375: the batch of a module that is left, with the test removed
FlushAlways(f, temp_block) ==
    WriteLn(WriteLn(WriteStream(WriteLn(WriteLn(f,
        "@(default_calling_convention=\"c\", link_prefix=\"oc_\")"), "foreign {"),
        temp_block), "}"), "")

\* lines 368-377: the batch of a module that is left
Flush(f, temp_block) ==
    IF Tell(temp_block) # 0
    THEN WriteLn(WriteLn(WriteStream(WriteLn(WriteLn(f,
             "@(default_calling_convention=\"c\", link_prefix=\"oc_\")"), "foreign {"),
             temp_block), "}"), "")
    ELSE f

\* the main loop of __main__ calls iterate_object(module, odin_file, temp_block)
MainCall ==
    /\ pc = "main"
    /\ module_idx < Len(Contents(api_desc, 0))
    /\ Enter(Contents(api_desc, 0)[module_idx + 1], stack)
    /\ module_idx' = IF IsNone(api_desc[Contents(api_desc, 0)[module_idx + 1]].obj)
                     THEN module_idx + 1 ELSE module_idx
    /\ UNCHANGED <<api_desc, main_block, hash_order, call, ret>>

\* lines 363-365: the for loop calls iterate_object(child, file, temp_block)
ChildCall ==
    /\ pc = "walk"
    /\ LET top == stack[Len(stack)]
           contents == Contents(api_desc, top.node)
       IN  /\ top.next <= Len(contents)
           /\ Enter(contents[top.next], [stack EXCEPT ![Len(stack)].next = @ + 1])
    /\ UNCHANGED <<api_desc, main_block, module_idx, hash_order, call, ret>>

\* the batch a proc is written into, had every call of one top-level module
\* shared the batch of that module
BatchFrameOutermost(callers) == IF Len(callers) = 0 THEN 0 ELSE 1

\* line 365: a child is called with the temp_block of its caller as shared_block;
\* the caller's place in the stack, 0 for the temp_block of __main__
BatchFrame(callers) == Len(callers)

\* lines 367-384: the children are done; a module flushes its batch, a proc is
\* written into the caller's batch, a typename into the file; the call returns
Return ==
    /\ pc = "walk"
    /\ LET top == stack[Len(stack)]
           obj == api_desc[top.node].obj
           kind == KindOf(obj)
           file1 == IF kind = "module" THEN Flush(file, top.temp_block) ELSE file
           file2 == IF kind = "typename" THEN gen_typename_object(obj, file1, 0) ELSE file1
           callers == SubSeq(stack, 1, Len(stack) - 1)
           owner == BatchFrame(callers)
           shared_block == IF owner = 0 THEN main_block ELSE callers[owner].temp_block
           shared1 == IF kind = "proc" THEN gen_proc(obj, shared_block, 1)
                      ELSE shared_block
           aborted == file2.err \/ shared1.err
       IN  /\ top.next > Len(Contents(api_desc, top.node))
           /\ file' = file2
           /\ main_block' = IF owner = 0 THEN shared1 ELSE main_block
           /\ stack' = IF owner = 0 THEN callers
                       ELSE [callers EXCEPT ![owner].temp_block = shared1]
           /\ pc' = IF aborted THEN "aborted"
                    ELSE IF callers = <<>> THEN "main" ELSE "walk"
           /\ module_idx' = IF callers = <<>> /\ ~aborted THEN module_idx + 1
                            ELSE module_idx
    /\ UNCHANGED <<api_desc, hash_order, call, ret>>

\* lines 393-396: every module is done; temp_block and the file are closed
MainEnd ==
    /\ pc = "main"
    /\ module_idx = Len(Contents(api_desc, 0))
    /\ pc' = "done"
    /\ UNCHANGED <<api_desc, file, main_block, stack, module_idx, hash_order, call, ret>>

\* ------------------------------------------------------------- input trees

Void == [kind |-> "void"]
F32 == [kind |-> "f32"]
VoidPtr == [kind |-> "pointer", type |-> Void]

\* The node shapes of the walk; node i carries i in its name, so that the
\* declarations of one tree have pairwise distinct names.
BuiltinNames == <<"oc_vec2", "oc_str8", "oc_rect", "oc_color", "oc_utf32", "oc_vec3">>

ModuleShapes(i) ==
    { [kind |-> "module", name |-> "m" \o ToString(i), brief |-> "module " \o ToString(i)],
      [kind |-> "module", name |-> "m" \o ToString(i)] }

ProcShapes(i) ==
    { [kind |-> "proc", name |-> "oc_p" \o ToString(i), params |-> <<>>, return |-> Void],
      [kind |-> "proc", name |-> "oc_q" \o ToString(i), doc |-> [str |-> "doc"],
       params |-> << [name |-> "context", type |-> VoidPtr],
                     [name |-> "...", type |-> [kind |-> "variadic-param"]] >>,
       return |-> [kind |-> "namedType", name |-> "oc_str8"]] }

TypenameShapes(i) ==
    { [kind |-> "typename", name |-> "oc_s" \o ToString(i),
       type |-> [kind |-> "struct",
                 fields |-> << [name |-> "x", type |-> F32],
                               [name |-> "", type |-> [kind |-> "union", fields |->
                                   << [name |-> "p", type |-> VoidPtr] >>]] >>]],
      [kind |-> "typename", name |-> "oc_e" \o ToString(i),
       type |-> [kind |-> "enum", type |-> [kind |-> "u32"],
                 constants |-> << [name |-> "OC_UI_FLAG_A", value |-> 0],
                                  [name |-> "OC_UI_1", value |-> 1] >>]],
      [kind |-> "typename", name |-> "oc_u" \o ToString(i),
       type |-> [kind |-> "union", fields |-> << [name |-> "a", type |-> F32] >>]],
      [kind |-> "typename", name |-> BuiltinNames[i],
       type |-> [kind |-> "struct", fields |-> << [name |-> "x", type |-> F32] >>]],
      [kind |-> "typename", name |-> "oc_t" \o ToString(i)] }

OtherShapes(i) == { [kind |-> "macro", name |-> "OC_M" \o ToString(i)], None }

LeafShapes(i) == ProcShapes(i) \cup TypenameShapes(i) \cup OtherShapes(i)

\* the nodes from the root to node i, i included
RECURSIVE PathTo(_, _)
PathTo(tree, i) == IF i = 0 THEN {} ELSE {i} \cup PathTo(tree, tree[i].parent)

\* Node i+1 of a pre-order numbering hangs under a module on the path to node i,
\* or is a new top-level module: the input trees are those of the data model,
\* in which modules nest modules and every other node is a leaf of a module.
Extensions(tree) ==
    LET i == Len(tree) + 1
        mods == {p \in PathTo(tree, Len(tree)) : KindOf(tree[p].obj) = "module"}
    IN  {Append(tree, [parent |-> 0, obj |-> o]) : o \in ModuleShapes(i)}
        \cup {Append(tree, [parent |-> p, obj |-> o]) :
                  p \in mods, o \in ModuleShapes(i) \cup LeafShapes(i)}

\* the names of the constants of an enum descriptor, of no other descriptor
ConstNames(type) ==
    IF Has(type, "kind") /\ type.kind = "enum"
    THEN {type.constants[k].name : k \in 1..Len(type.constants)}
    ELSE {}

\* the names that a walk of the tree hands to simplify_enum_name
EnumNames(tree) ==
    UNION {ConstNames(tree[i].obj.type) :
               i \in {j \in 1..Len(tree) : /\ KindOf(tree[j].obj) = "typename"
                                           /\ Has(tree[j].obj, "type")}}

\* ------------------------------------------------- inputs of the emitters

UnionPF ==
    [kind |-> "union",
     fields |-> << [name |-> "p", type |-> VoidPtr], [name |-> "", type |-> F32] >>]

\* a union with an inner struct that again holds a union
UnionNested ==
    [kind |-> "union",
     fields |-> << [name |-> "", type |-> [kind |-> "struct", fields |->
                       << [name |-> "u", type |-> UnionPF] >>]],
                   [name |-> "c", type |-> [kind |-> "pointer", type |-> [kind |-> "char"]]] >>]

StructXY ==
    [kind |-> "struct",
     fields |-> << [name |-> "x", type |-> F32], [name |-> "y", type |-> F32] >>]

\* a descriptor with a name and no kind
NoKind == [name |-> "oc_vec2"]

BaseDescriptors ==
    { Void, F32, [kind |-> "char"], NoKind,
      [kind |-> "namedType", name |-> "oc_window"],
      [kind |-> "namedType", name |-> "oc_vec2"],
      [kind |-> "namedType", name |-> "str8"],
      [kind |-> "namedType"],
      [kind |-> "pointer"],
      [kind |-> "struct", name |-> "oc_vec2", fields |-> StructXY.fields],
      [kind |-> "union", name |-> "oc_rect", fields |-> UnionPF.fields],
      [kind |-> "enum", name |-> "oc_utf32", type |-> [kind |-> "u32"], constants |-> <<>>],
      [kind |-> "struct", name |-> "oc_arena", fields |-> StructXY.fields],
      StructXY, UnionPF, [kind |-> "union"] }

\* a descriptor wrapped once more: a pointer to it (with or without a name of
\* its own) or an unnamed namedType around it
Wrappers(d) ==
    { [kind |-> "pointer", type |-> d],
      [kind |-> "pointer", name |-> "oc_color", type |-> d],
      [kind |-> "namedType", type |-> d] }

RECURSIVE Descriptors(_)
Descriptors(depth) ==
    IF depth = 0 THEN BaseDescriptors
    ELSE Descriptors(depth - 1) \cup UNION {Wrappers(d) : d \in Descriptors(depth - 1)}

FieldNames == {"h", "x", "", "oc_data"}

FieldTypes ==
    { F32, VoidPtr, [kind |-> "namedType", name |-> "oc_vec2"],
      UnionPF, UnionNested, [kind |-> "union"], NoKind,
      [kind |-> "union", fields |-> << [name |-> "k", type |-> NoKind] >>],
      [kind |-> "union", fields |-> << [name |-> "a", type |-> F32],
                                       [name |-> "t", type |-> [kind |-> "namedType"]] >>],
      [kind |-> "union", name |-> "oc_bits", fields |-> UnionPF.fields] }

Fields ==
    {[name |-> n, type |-> t] : n \in FieldNames, t \in FieldTypes}
    \cup {[name |-> "d", type |-> t, doc |-> [str |-> "a field"]] : t \in {F32, UnionPF}}

\* the sequences over S of length at most n
RECURSIVE SeqsUpTo(_, _)
SeqsUpTo(S, n) ==
    IF n = 0 THEN {<<>>}
    ELSE LET shorter == SeqsUpTo(S, n - 1)
         IN  shorter \cup {Append(q, x) : q \in {r \in shorter : Len(r) = n - 1}, x \in S}

EnumConstants ==
    { [name |-> "OC_UI_FLAG_A", value |-> 1],
      [name |-> "OC_FILE_B", value |-> 2, doc |-> [str |-> "a constant"]],
      [name |-> "OC_UI_7", value |-> 7],
      [name |-> "OC_IO_ERR_C", value |-> 0 - 3, doc |-> [str |-> "an error"]],
      [name |-> "PLAIN", value |-> 0] }

TypenameNames == {"oc_window", "oc_rect"}

\* typenames other than the structs and enums built field by field
OtherTypenames ==
    {[kind |-> "typename", name |-> n, type |-> t] :
         n \in TypenameNames, t \in {UnionPF, [kind |-> "struct"], NoKind}}
    \cup {[kind |-> "typename", name |-> n, doc |-> d, type |-> t] :
              n \in TypenameNames, d \in {[str |-> "one line"], [list |-> <<"two", "lines">>]},
              t \in {StructXY, [kind |-> "enum", type |-> [kind |-> "i32"], constants |->
                                   << [name |-> "OC_KEY_A", value |-> 4] >>]}}
    \cup {[kind |-> "typename", name |-> n] : n \in TypenameNames}

ParamSets ==
    SeqsUpTo({ [name |-> "context", type |-> VoidPtr],
               [name |-> "string", type |-> [kind |-> "namedType", name |-> "oc_str8"]],
               [name |-> "pp", type |-> [kind |-> "pointer", type |-> VoidPtr]],
               [name |-> "k", type |-> NoKind],
               [name |-> "...", type |-> [kind |-> "variadic-param"]] }, 2)

ProcObjects ==
    {[kind |-> "proc", name |-> "oc_window_create", params |-> ps, return |-> r] :
         ps \in ParamSets, r \in {Void, VoidPtr, [kind |-> "namedType", name |-> "oc_vec2"],
                                  [kind |-> "pointer"], NoKind}}
    \cup {[kind |-> "proc", name |-> "run", doc |-> [list |-> <<"runs">>],
           params |-> <<>>, return |-> F32],
          [name |-> "oc_clock_time", params |-> <<>>, return |-> F32]}

\* every prefix of the two sets followed by a letter, and names around them
EnumConstNames ==
    {p \o "X" : p \in enum_prefixes_specific \cup enum_prefixes_broad}
    \cup {"OC_UI_7", "OC_KEYMOD", "OC_UI_FLAG_", "OC_OTHER_X", "PLAIN", "OC_FILE_OPEN"}

\* the names that the call hands to simplify_enum_name
CallNames(c) ==
    IF c.fn = "simplify_enum_name" THEN {c.name}
    ELSE IF c.fn = "gen_enum" THEN ConstNames(c.obj)
    ELSE IF c.fn = "gen_typename_object" /\ Has(c.obj, "type") THEN ConstNames(c.obj.type)
    ELSE {}

NoCall == [fn |-> "none"]
NoRet == [done |-> FALSE]

Walker == <<api_desc, file, main_block, stack, module_idx>>

Init ==
    /\ api_desc = <<>>
    /\ file = EmptyStream
    /\ main_block = EmptyStream
    /\ stack = <<>>
    /\ module_idx = 0
    /\ pc = "load"
    /\ hash_order = ListedOrder
    /\ call = NoCall
    /\ ret = NoRet

\* line 388, json.load: the next node of the input, in pre-order
LoadNode ==
    /\ pc = "load"
    /\ Len(api_desc) < MaxNodes
    /\ api_desc' \in Extensions(api_desc)
    /\ UNCHANGED <<file, main_block, stack, module_idx, pc, hash_order, call, ret>>

\* lines 388-391: the input is read, the file opened, temp_block created.  The
\* iteration order of the prefix sets can act on an input with an enum only.
LoadEnd ==
    /\ pc = "load"
    /\ pc' = "main"
    /\ hash_order' \in IF EnumNames(api_desc) # {} THEN HashOrders(EnumNames(api_desc))
                       ELSE {ListedOrder}
    /\ UNCHANGED <<Walker, call, ret>>

Next == LoadNode \/ LoadEnd \/ MainCall \/ ChildCall \/ Return \/ MainEnd

Spec == Init /\ [][Next]_vars

\* -------------------------------------- the emitters applied to one input

InitEmit ==
    /\ \/ \E d \in Descriptors(MaxDepth) : call = [fn |-> "get_inner_kind", obj |-> d]
       \/ \E n \in TypenameNames, k \in 0..MaxFields : \E fs \in [1..k -> Fields] :
              call = [fn |-> "gen_typename_object",
                      obj |-> [kind |-> "typename", name |-> n,
                               type |-> [kind |-> "struct", fields |-> fs]]]
       \/ \E t \in OtherTypenames : call = [fn |-> "gen_typename_object", obj |-> t]
       \/ \E k \in 0..MaxConsts : \E cs \in [1..k -> EnumConstants] :
              call = [fn |-> "gen_enum", name |-> "level",
                      obj |-> [kind |-> "enum", type |-> [kind |-> "u32"],
                               constants |-> cs]]
       \/ \E p \in ProcObjects : call = [fn |-> "gen_proc", obj |-> p]
       \/ \E n \in EnumConstNames : call = [fn |-> "simplify_enum_name", name |-> n]
    /\ hash_order \in IF CallNames(call) # {} THEN HashOrders(CallNames(call))
                      ELSE {ListedOrder}
    /\ ret = NoRet
    /\ pc = "emit"
    /\ api_desc = <<>>
    /\ file = EmptyStream
    /\ main_block = EmptyStream
    /\ stack = <<>>
    /\ module_idx = 0

ResolveType ==
    /\ pc = "emit" /\ call.fn = "get_inner_kind"
    /\ ret' = [done |-> TRUE, val |-> get_inner_kind(call.obj)]
    /\ pc' = "returned"
    /\ UNCHANGED <<Walker, hash_order, call>>

EmitTypename ==
    /\ pc = "emit" /\ call.fn = "gen_typename_object"
    /\ ret' = [done |-> TRUE, out |-> gen_typename_object(call.obj, EmptyStream, 0)]
    /\ pc' = "returned"
    /\ UNCHANGED <<Walker, hash_order, call>>

EmitEnum ==
    /\ pc = "emit" /\ call.fn = "gen_enum"
    /\ ret' = [done |-> TRUE, out |-> gen_enum(call.obj, EmptyStream, call.name, 0)]
    /\ pc' = "returned"
    /\ UNCHANGED <<Walker, hash_order, call>>

EmitProc ==
    /\ pc = "emit" /\ call.fn = "gen_proc"
    /\ ret' = [done |-> TRUE, out |-> gen_proc(call.obj, EmptyStream, 1)]
    /\ pc' = "returned"
    /\ UNCHANGED <<Walker, hash_order, call>>

SimplifyName ==
    /\ pc = "emit" /\ call.fn = "simplify_enum_name"
    /\ ret' = [done |-> TRUE, val |-> simplify_enum_name(call.name)]
    /\ pc' = "returned"
    /\ UNCHANGED <<Walker, hash_order, call>>

NextEmit == ResolveType \/ EmitTypename \/ EmitEnum \/ EmitProc \/ SimplifyName

SpecEmit == InitEmit /\ [][NextEmit]_vars

\* ------------------------------------------------- reading the final output

Nodes == 1..Len(api_desc)

Kind(i) == KindOf(api_desc[i].obj)

Parent(i) == api_desc[i].parent

IsModule(i) == Kind(i) = "module"

IsProc(i) == Kind(i) = "proc"

\* the name a declaration carries in the output: every declared name of the
\* input trees starts with oc_
OutName(i) == SubSeq(api_desc[i].obj.name, 4, Len(api_desc[i].obj.name))

\* how the declaration of node i starts in the output
DeclStart(i) == IF IsProc(i) THEN "  " \o OutName(i) \o " :: proc(" ELSE OutName(i) \o " ::"

\* the lines of the output that declare node i
DeclLines(i) == {k \in 1..Len(file.lines) : StartsWith(file.lines[k], DeclStart(i))}

\* a node that puts a declaration into the output: a procedure or a type
Declares(i) == Kind(i) \in {"proc", "typename"} /\ DeclLines(i) # {}

DeclPos(i) == Min(DeclLines(i))

\* node j lies below module m
Below(j, m) == m # j /\ m \in PathTo(api_desc, j)

ProcsOf(m) == {p \in Nodes : IsProc(p) /\ Parent(p) = m}

ModulesWithProcs == {m \in Nodes : IsModule(m) /\ ProcsOf(m) # {}}

BlockStarts == {k \in 1..Len(file.lines) : file.lines[k] = "foreign {"}

BlockEnd(k) == Min({e \in (k + 1)..Len(file.lines) : file.lines[e] = "}"})

\* the procedures declared inside the block opened at line k, in output order
BlockProcs(k) ==
    LET at == SortedSeq({x \in (k + 1)..(BlockEnd(k) - 1) :
                             Contains(file.lines[x], " :: proc(")})
    IN  [n \in 1..Len(at) |->
            CHOOSE p \in Nodes : IsProc(p) /\ StartsWith(file.lines[at[n]], DeclStart(p))]

\* ---------------------------------------------------------------- claims

\* C1 as stated: in the final output any two declarations, procedures and
\* type declarations alike, stand in the order of the pre-order walk.
C1_AllDeclarationsInPreOrder ==
    pc = "done" =>
        \A i, j \in Nodes :
            (i < j /\ Declares(i) /\ Declares(j)) => DeclPos(i) < DeclPos(j)

\* C1, amended: any two declarations stand in pre-order, except that a procedure
\* is written when its module is left: it comes after every type declaration
\* and every nested module's procedure that follows it inside its module.
C1_PreOrderUpToBatching ==
    pc = "done" =>
        \A i, j \in Nodes :
            (i < j /\ Declares(i) /\ Declares(j)) =>
                IF IsProc(i) /\ Below(j, Parent(i)) /\ ~(IsProc(j) /\ Parent(j) = Parent(i))
                THEN DeclPos(j) < DeclPos(i)
                ELSE DeclPos(i) < DeclPos(j)

\* C1 witness: a finished run in which a procedure precedes a sibling type
\* declaration, which precedes another procedure of the same module.
C1_Witness ==
    /\ pc = "done"
    /\ \E i, j, k \in Nodes : /\ i < j /\ j < k
                              /\ IsProc(i) /\ Kind(j) = "typename" /\ IsProc(k)
                              /\ Parent(i) = Parent(j) /\ Parent(j) = Parent(k)
                              /\ Declares(i) /\ Declares(j) /\ Declares(k)

\* C2 as stated: no input aborts the generation; every run reaches completion.
C2_NeverAborts == pc # "aborted"

\* C3: after the traversal the output holds as many foreign blocks as there are
\* modules with at least one procedure as a direct child.
C3_OneBlockPerModuleWithProcs ==
    pc = "done" => Cardinality(BlockStarts) = Cardinality(ModulesWithProcs)

\* C3 witness: a finished run with a module that has procedures and a module
\* that has children but no procedure among them.
C3_Witness ==
    /\ pc = "done"
    /\ ModulesWithProcs # {}
    /\ \E m \in Nodes : /\ IsModule(m) /\ ProcsOf(m) = {}
                        /\ \E j \in Nodes : Parent(j) = m

\* C10: every procedure of a module is declared exactly once in the final
\* output; every foreign block holds the procedures of exactly one module, all
\* of them, in input order; the block of a nested module stands before the
\* block of the module around it (it is written when the nested module is left).
C10_BatchPerModule ==
    pc = "done" =>
        /\ \A p \in Nodes : IsProc(p) => Cardinality(DeclLines(p)) = 1
        /\ \A k \in BlockStarts :
               \E m \in ModulesWithProcs : BlockProcs(k) = SortedSeq(ProcsOf(m))
        /\ \A m, n \in ModulesWithProcs :
               Below(n, m) =>
                   \A p \in ProcsOf(m), q \in ProcsOf(n) : DeclPos(q) < DeclPos(p)

\* C10 witness: a finished run with a module that has a procedure in front of
\* a nested module that has a procedure of its own.
C10_Witness ==
    /\ pc = "done"
    /\ \E m, n \in ModulesWithProcs :
           /\ Parent(n) = m
           /\ \E p \in ProcsOf(m) : p < n

\* ------------------------------------------- reading an emitter's result

Returned(fn) == pc = "returned" /\ call.fn = fn

\* a line without its indentation
RECURSIVE LStrip(_)
LStrip(line) == IF StartsWith(line, " ") THEN LStrip(Drop(line, 1)) ELSE line

IsComment(line) == StartsWith(LStrip(line), "//")

\* the lines of a stream that are not // comments
CodeLines(lines) == SelectSeq(lines, LAMBDA l : ~IsComment(l))

CountLines(lines, P(_)) == Cardinality({k \in 1..Len(lines) : P(lines[k])})

\* a descriptor or typename whose name is a key of the builtin-override table
HasBuiltinName(obj) == Has(obj, "name") /\ IsBuiltin(prefix_trim_oc(obj.name))

\* the name with the longest prefix of either set removed
LongestStrip(name) ==
    LET m == {p \in enum_prefixes_specific \cup enum_prefixes_broad : StartsWith(name, p)}
    IN  IF m = {} THEN name ELSE Drop(name, Max({Len(p) : p \in m}))

\* C4 as stated: the resolver returns the override text of a builtin name
\* (stated for the descriptors that carry a kind).
C4_ResolverReturnsOverride ==
    (Returned("get_inner_kind") /\ HasBuiltinName(call.obj) /\ Has(call.obj, "kind")) =>
        ret.val = Ok(type_builtins[prefix_trim_oc(call.obj.name)])

\* a descriptor that has its kind, and in which every pointer and every
\* unnamed namedType has its type, a descriptor of that sort again
RECURSIVE WellFormed(_)
WellFormed(d) ==
    /\ Has(d, "kind")
    /\ (d.kind = "pointer" \/ (d.kind = "namedType" /\ ~Has(d, "name"))) =>
           (Has(d, "type") /\ WellFormed(d.type))

\* C5 as stated: an unnamed pointer resolves to rawptr when its pointee is void,
\* and otherwise to ^ followed by the resolution of its pointee (stated for
\* the descriptors that lack no kind and no type).
C5_PointerResolvesRecursively ==
    (/\ Returned("get_inner_kind")
     /\ WellFormed(call.obj) /\ call.obj.kind = "pointer" /\ ~Has(call.obj, "name")) =>
        LET pointee == call.obj.type
        IN  ret.val = IF pointee.kind = "void" /\ ~Has(pointee, "name") THEN Ok("rawptr")
                      ELSE Ok("^" \o get_inner_kind(pointee).val)

\* C6 as stated: no identifier of the output of a declaration starts with oc_
\* (an identifier opens every line of a declaration that is not a comment).
C6_NoPrefixInOutput ==
    ((Returned("gen_typename_object") \/ Returned("gen_proc")) /\ ~ret.out.err) =>
        \A k \in 1..Len(ret.out.lines) : ~StartsWith(LStrip(ret.out.lines[k]), "oc_")

\* C7: gen_enum writes an enum of one constant as the single line
\* "name :: value", with no block and no backing width; an enum of n > 1
\* constants as one header with the backing width, n lines "name = value," in
\* input order, and one closing brace.
C7_EnumForms ==
    Returned("gen_enum") =>
        LET cs == call.obj.constants
            code == CodeLines(ret.out.lines)
            OutConst(k) == check_enum_name_decimal(LongestStrip(cs[k].name))
            Braces(l) == Contains(l, "{") \/ Contains(l, "}")
        IN  /\ Len(cs) = 1 =>
                /\ code = << OutConst(1) \o " :: " \o ToString(cs[1].value), "" >>
                /\ CountLines(ret.out.lines, Braces) = 0
                /\ CountLines(ret.out.lines, LAMBDA l : Contains(l, "u32")) = 0
            /\ Len(cs) > 1 =>
                /\ Len(code) = Len(cs) + 3
                /\ code[1] = call.name \o " :: enum u32 {"
                /\ \A k \in 1..Len(cs) :
                       code[k + 1] = "  " \o OutConst(k) \o " = " \o ToString(cs[k].value) \o ","
                /\ code[Len(cs) + 2] = "}"
                /\ code[Len(cs) + 3] = ""
                /\ CountLines(ret.out.lines, Braces) = 2
                /\ CountLines(ret.out.lines, LAMBDA l : Contains(l, " :: ")) = 1

\* C7 witness: gen_enum has returned for an enum of one documented constant.
C7_Witness ==
    /\ Returned("gen_enum")
    /\ Len(call.obj.constants) = 1
    /\ Has(call.obj.constants[1], "doc")

\* a struct typename with exactly one field, of union kind
OneUnionField(obj) ==
    /\ Has(obj, "type") /\ Has(obj.type, "kind")
    /\ obj.type.kind = "struct" /\ Has(obj.type, "fields")
    /\ Len(obj.type.fields) = 1
    /\ Has(obj.type.fields[1].type, "kind")
    /\ obj.type.fields[1].type.kind = "union"

\* the output is a struct body with one nested raw union as its only member
\* and no top-level union declaration
NestsOneUnion(name, lines) ==
    LET n == Len(lines)
        Opens(l) == StartsWith(l, "  ") /\ ~StartsWith(l, "   ")
                    /\ EndsWith(l, ": struct #raw_union {")
    IN  /\ n >= 5
        /\ lines[1] = name \o " :: struct {"
        /\ CountLines(lines, Opens) = 1
        /\ \E k \in 2..(n - 3) : Opens(lines[k]) /\ \A j \in 2..(k - 1) : IsComment(lines[j])
        /\ lines[n - 2] = "  },"
        /\ lines[n - 1] = "}"
        /\ lines[n] = ""
        /\ CountLines(lines, LAMBDA l : EndsWith(l, ":: union {}")) = 0

\* C8 as stated: a struct typename with exactly one field, of union kind, is
\* written as a struct body with exactly one nested raw union and with no
\* top-level union declaration, whatever the field's name and whether or not
\* the union carries a name.
C8_UnionFieldAlwaysNested ==
    (Returned("gen_typename_object") /\ OneUnionField(call.obj)) =>
        NestsOneUnion(prefix_trim_oc(call.obj.name), ret.out.lines)

\* C9: in every iteration order of the two prefix sets simplify_enum_name
\* strips the longest prefix of either set that the name starts with.
C9_LongestPrefixInEveryOrder ==
    Returned("simplify_enum_name") => ret.val = LongestStrip(call.name)

\* C9 witness: the function has returned for a name that starts with a prefix
\* of each set, each set iterated in another order than it is listed.
C9_Witness ==
    /\ Returned("simplify_enum_name")
    /\ \E p \in enum_prefixes_specific : StartsWith(call.name, p)
    /\ \E p \in enum_prefixes_broad : StartsWith(call.name, p)
    /\ hash_order.specific # SpecificList /\ hash_order.broad # BroadList

====
